---- MODULE Spec2Model ----
(***************************************************************************)
(* PagerMaid-Pyro plugin manager: pagermaid/common/plugin.py.              *)
(*                                                                         *)
(* The plugin directory, the ledger file plugins/version.json, the         *)
(* PluginManager's fields and the coroutines in flight are the state.      *)
(* Synchronous methods are one action each.  A coroutine is one action     *)
(* per stretch of code between two awaits: asyncio runs one task at a      *)
(* time and switches tasks only at an await on the HTTP client.            *)
(*                                                                         *)
(* Optional[float] is a sequence of length at most one: None is <<>> and   *)
(* the number v is <<v>>.  Version numbers are integers (tenths).          *)
(* A file name is the sequence of its dot-separated parts, each part but   *)
(* the first keeping its dot: a.py.disabled is <<"a", ".py", ".disabled">>.*)
(***************************************************************************)
EXTENDS Integers, Sequences, FiniteSets, TLC

\* ---------------------------------------------------------------- bounds

\* Largest version number a catalog or a ledger file holds.
MaxVersion == 2

\* Coroutines that can be suspended on the HTTP client at the same time.
MaxTasks == 2

\* Calls made on the manager in one run.
MaxOps == 3

\* Plugin names the callers use.
Names == {"a", "b"}

Tasks == 1..MaxTasks

\* ------------------------------------------------------- Optional[float]

None == <<>>

Some(v) == <<v>>

\* Python truthiness of an Optional[float]: None and 0.0 are falsy.
Truthy(o) == o # None /\ o[1] # 0

\* dict.get(key): the value, or None when the key is missing.
DictGet(d, key) == IF key \in DOMAIN d THEN d[key] ELSE None

\* The dict d after d[key] = value.
DictSet(d, key, value) ==
    [k \in DOMAIN d \cup {key} |-> IF k = key THEN value ELSE d[k]]

\* The dict d after d.pop(key).
DictPop(d, key) == [k \in DOMAIN d \ {key} |-> d[k]]

EmptyDict == [k \in {} |-> None]

\* ------------------------------------------------------------ file names

normal_path(name) == <<name, ".py">>

disabled_path(name) == <<name, ".py", ".disabled">>

version_json == <<"version", ".json">>

\* str.endswith on a file name, for a suffix made of whole parts.
EndsWith(f, suffix) ==
    /\ Len(f) >= Len(suffix)
    /\ SubSeq(f, Len(f) - Len(suffix) + 1, Len(f)) = suffix

\* plugin[:-12] if plugin.endswith('.py.disabled') else plugin[:-3]
StripSuffix(f) ==
    IF EndsWith(f, <<".py", ".disabled">>)
    THEN SubSeq(f, 1, Len(f) - 2)
    ELSE SubSeq(f, 1, Len(f) - 1)

\* The plugin files a directory over Names can hold.
PluginFiles == {normal_path(n) : n \in Names} \cup {disabled_path(n) : n \in Names}

\* The name a stripped file name stands for (plugin stems have one part).
Join(parts) == parts[1]

\* The file names the model knows, in the order listings give them.
FileOrder ==
    <<normal_path("a"), disabled_path("a"), normal_path("b"), disabled_path("b"),
      version_json>>

\* A set of file names as a listing.  os.listdir promises no order; the manager
\* reads its lists only through a first match by name, and the records one
\* scan builds for one name are equal, so one order stands for all.
Listing(S) == SelectSeq(FileOrder, LAMBDA f : f \in S)

\* ----------------------------------------------------------------- state

VARIABLES
    files,              \* plugin files present in plugins/ (file names)
    version_file,       \* plugins/version.json: [exists, data]
    version_map,        \* PluginManager.version_map
    remote_version_map, \* PluginManager.remote_version_map
    plugins,            \* PluginManager.plugins
    remote_plugins,     \* PluginManager.remote_plugins
    cache,              \* the @cache() wrapper around load_remote_plugins: [time, value]
    calls,              \* the coroutine suspended in each task slot
    last,               \* the call step taken last, and what it returned
    ops,                \* calls made so far
    budget              \* calls this run may make

vars == <<files, version_file, version_map, remote_version_map, plugins,
          remote_plugins, cache, calls, last, ops, budget>>

\* --------------------------------------------------------- LocalPlugin

\* LocalPlugin(name=..., installed=..., status=..., version=...)
LocalPlugin(name, installed, status, version) ==
    [name |-> name, status |-> status, installed |-> installed, version |-> version]

\* os.remove(path) inside contextlib.suppress(FileNotFoundError)
OsRemoveSuppressed(fs, path) == fs \ {path}

\* LocalPlugin.remove: the directory afterwards.
LocalPlugin_remove(fs, name) ==
    OsRemoveSuppressed(OsRemoveSuppressed(fs, normal_path(name)), disabled_path(name))

\* os.rename(src, dst): raises when src is missing.  When dst exists the
\* platform decides: POSIX replaces dst (px), Windows raises FileExistsError.
OsRename(fs, px, src, dst) ==
    IF src \notin fs THEN [raised |-> TRUE, files |-> fs]
    ELSE IF dst \in fs /\ ~px THEN [raised |-> TRUE, files |-> fs]
    ELSE [raised |-> FALSE, files |-> (fs \ {src}) \cup {dst}]

\* LocalPlugin.enable that copies the file instead of renaming it.
LocalPlugin_enable_copy(fs, px, name) ==
    LET r == OsRename(fs, px, disabled_path(name), normal_path(name))
    IN  [ret |-> ~r.raised, files |-> IF r.raised THEN fs ELSE r.files \cup {disabled_path(name)}]

\* LocalPlugin.enable: [ret, files].
LocalPlugin_enable(fs, px, name) ==
    LET r == OsRename(fs, px, disabled_path(name), normal_path(name))
    IN  [ret |-> ~r.raised, files |-> r.files]

\* LocalPlugin.disable that copies the file instead of renaming it.
LocalPlugin_disable_copy(fs, px, name) ==
    LET r == OsRename(fs, px, normal_path(name), disabled_path(name))
    IN  [ret |-> ~r.raised, files |-> IF r.raised THEN fs ELSE r.files \cup {normal_path(name)}]

\* LocalPlugin.disable: [ret, files].
LocalPlugin_disable(fs, px, name) ==
    LET r == OsRename(fs, px, normal_path(name), disabled_path(name))
    IN  [ret |-> ~r.raised, files |-> r.files]

\* ------------------------------------------------------- version ledger

\* load_local_version_map: the in-memory map afterwards.
load_local_version_map(vm, vf) == IF ~vf.exists THEN vm ELSE vf.data

\* save_local_version_map: the ledger file afterwards (json.dump of the whole map).
save_local_version_map(vm) == [exists |-> TRUE, data |-> vm]

\* get_local_version: float(data) if data else None
get_local_version(vm, name) ==
    LET data == DictGet(vm, name)
    IN  IF Truthy(data) THEN data ELSE None

\* set_local_version that saves before it assigns: the file misses the new entry.
set_local_version_save_first(vm, name, version) ==
    [version_map |-> DictSet(vm, name, version), version_file |-> save_local_version_map(vm)]

\* set_local_version: [version_map, version_file] afterwards.
set_local_version(vm, name, version) ==
    LET vm2 == DictSet(vm, name, version)
    IN  [version_map |-> vm2, version_file |-> save_local_version_map(vm2)]

get_plugin_install_status(vm, name) == name \in DOMAIN vm

get_plugin_load_status(fs, name) == normal_path(name) \in fs

\* ------------------------------------------------------------- lookups

\* next(filter(lambda x: x.name == name, seq), None): <<>> or <<first match>>.
RECURSIVE FirstNamed(_, _)
FirstNamed(seq, name) ==
    IF seq = <<>> THEN <<>>
    ELSE IF Head(seq).name = name THEN <<Head(seq)>>
    ELSE FirstNamed(Tail(seq), name)

get_local_plugin(pl, name) == FirstNamed(pl, name)

get_remote_plugin(rp, name) == FirstNamed(rp, name)

\* os.listdir('plugins'): the plugin files and the ledger file, if written.
ListDir(fs, vf) == fs \cup (IF vf.exists THEN {version_json} ELSE {})

\* The loop body of load_local_plugins for one directory entry: the list afterwards.
ScanEntry(pl, f, fs, vm) ==
    IF EndsWith(f, <<".py">>) \/ EndsWith(f, <<".py", ".disabled">>)
    THEN LET plugin == Join(StripSuffix(f))
         IN  Append(pl, LocalPlugin(plugin,
                                    get_plugin_install_status(vm, plugin),
                                    get_plugin_load_status(fs, plugin),
                                    get_local_version(vm, plugin)))
    ELSE pl

\* The loop of load_local_plugins over the listing, in the listing's order.
RECURSIVE ScanEntries(_, _, _, _)
ScanEntries(pl, listing, fs, vm) ==
    IF listing = <<>> THEN pl
    ELSE ScanEntries(ScanEntry(pl, Head(listing), fs, vm), Tail(listing), fs, vm)

\* plugin_need_update with <= for <: equal versions would trigger an update.
plugin_need_update_le(vm, rvm, name) ==
    LET local_version == get_local_version(vm, name)
        remote_version == DictGet(rvm, name)
    IN  IF Truthy(local_version)
        THEN IF local_version[1] = 0 THEN FALSE
             ELSE IF Truthy(remote_version)
                  THEN local_version[1] <= remote_version[1]
                  ELSE FALSE
        ELSE FALSE

\* plugin_need_update
plugin_need_update(vm, rvm, name) ==
    LET local_version == get_local_version(vm, name)
        remote_version == DictGet(rvm, name)
    IN  IF Truthy(local_version)
        THEN IF local_version[1] = 0 THEN FALSE
             ELSE IF Truthy(remote_version)
                  THEN local_version[1] < remote_version[1]
                  ELSE FALSE
        ELSE FALSE

\* ------------------------------------------------------- remote catalog

\* RemotePlugin(**plugin, status=...): installed keeps its default, False.
RemotePlugin(desc, status) == LocalPlugin(desc.name, FALSE, status, desc.version)

\* The versions catalog descriptors carry.
CatalogVersions == {Some(v) : v \in 1..MaxVersion}

\* The names of S in catalog order.
NameList(S) == SelectSeq(<<"a", "b">>, LAMBDA n : n \in S)

\* The "list" arrays a response can carry, each a sequence of descriptors
\* [name, version, valid]: valid is FALSE when pydantic rejects the descriptor
\* (a required field such as section is missing).  Catalog entries have
\* distinct names; the descriptor pydantic rejects, if any, is the last one.
CatalogLists ==
    UNION {{[i \in 1..Len(NameList(S)) |->
                [name |-> NameList(S)[i], version |-> v[NameList(S)[i]],
                 valid |-> i < Len(NameList(S)) \/ ok]]
              : v \in [S -> CatalogVersions], ok \in BOOLEAN}
           : S \in SUBSET Names}

\* What client.get(list.json) followed by .json()["list"] can give:
\* the request raises, the document has no usable "list", or a list arrives.
Responses ==
    {[kind |-> "transport_error", list |-> <<>>], [kind |-> "no_list", list |-> <<>>]}
    \cup {[kind |-> "list", list |-> l] : l \in CatalogLists}

\* Lines 138-144: the list comprehension; a rejected descriptor raises.
BuildRemotePlugins(resp, fs) ==
    IF resp.kind # "list" \/ \E i \in 1..Len(resp.list) : ~resp.list[i].valid
    THEN [raised |-> TRUE, plugins |-> <<>>]
    ELSE [raised |-> FALSE,
          plugins |-> [i \in 1..Len(resp.list) |->
                         RemotePlugin(resp.list[i],
                                      get_plugin_load_status(fs, resp.list[i].name))]]

\* Lines 146-148: remote_version_map rebuilt from the new list, entry by entry.
RECURSIVE BuildRemoteVersionMap(_, _)
BuildRemoteVersionMap(rvm, pl) ==
    IF pl = <<>> THEN rvm
    ELSE BuildRemoteVersionMap(DictSet(rvm, Head(pl).name, Head(pl).version), Tail(pl))

\* load_remote_plugins that empties the two fields before it builds the new list.
load_remote_plugins_body_clear_first(resp, fs, rp, rvm) ==
    LET built == BuildRemotePlugins(resp, fs)
    IN  IF built.raised
        THEN [raised |-> TRUE, ret |-> <<>>, remote_plugins |-> <<>>,
              remote_version_map |-> EmptyDict]
        ELSE [raised |-> FALSE, ret |-> built.plugins, remote_plugins |-> built.plugins,
              remote_version_map |-> BuildRemoteVersionMap(EmptyDict, built.plugins)]

\* load_remote_plugins without the reset of remote_version_map (line 146):
\* the names of earlier catalogs would stay in the map.
load_remote_plugins_body_no_reset(resp, fs, rp, rvm) ==
    LET built == BuildRemotePlugins(resp, fs)
    IN  IF built.raised
        THEN [raised |-> TRUE, ret |-> <<>>, remote_plugins |-> rp,
              remote_version_map |-> rvm]
        ELSE [raised |-> FALSE, ret |-> built.plugins, remote_plugins |-> built.plugins,
              remote_version_map |-> BuildRemoteVersionMap(rvm, built.plugins)]

\* load_remote_plugins that returns the parsed descriptors (plugin_list)
\* instead of the records it stored.
load_remote_plugins_body_returns_raw(resp, fs, rp, rvm) ==
    LET built == BuildRemotePlugins(resp, fs)
    IN  IF built.raised
        THEN [raised |-> TRUE, ret |-> <<>>, remote_plugins |-> rp,
              remote_version_map |-> rvm]
        ELSE [raised |-> FALSE, ret |-> resp.list, remote_plugins |-> built.plugins,
              remote_version_map |-> BuildRemoteVersionMap(EmptyDict, built.plugins)]

\* The body of load_remote_plugins after the response arrived:
\* [raised, ret, remote_plugins, remote_version_map].
load_remote_plugins_body(resp, fs, rp, rvm) ==
    LET built == BuildRemotePlugins(resp, fs)
    IN  IF built.raised
        THEN [raised |-> TRUE, ret |-> <<>>, remote_plugins |-> rp,
              remote_version_map |-> rvm]
        ELSE [raised |-> FALSE, ret |-> built.plugins, remote_plugins |-> built.plugins,
              remote_version_map |-> BuildRemoteVersionMap(EmptyDict, built.plugins)]

\* ------------------------------------------------------------- handlers
\* Each handler is a function of the state it reads, giving what it returns
\* and the state it leaves.

\* remove_plugin: [ret, files, version_map, version_file].
remove_plugin_result(pl, fs, vm, vf, name) ==
    LET plugin == get_local_plugin(pl, name)
    IN  IF plugin # <<>>
        THEN LET fs2 == LocalPlugin_remove(fs, plugin[1].name)
             IN  IF name \in DOMAIN vm
                 THEN [ret |-> TRUE, files |-> fs2, version_map |-> DictPop(vm, name),
                       version_file |-> save_local_version_map(DictPop(vm, name))]
                 ELSE [ret |-> TRUE, files |-> fs2, version_map |-> vm, version_file |-> vf]
        ELSE [ret |-> FALSE, files |-> fs, version_map |-> vm, version_file |-> vf]

\* enable_plugin that skips the lookup of the local record.
enable_plugin_result_no_lookup(pl, fs, px, name) == LocalPlugin_enable(fs, px, name)

\* enable_plugin: [ret, files].
enable_plugin_result(pl, fs, px, name) ==
    LET plugin == get_local_plugin(pl, name)
    IN  IF plugin # <<>> THEN LocalPlugin_enable(fs, px, plugin[1].name)
        ELSE [ret |-> FALSE, files |-> fs]

\* disable_plugin: [ret, files].
disable_plugin_result(pl, fs, px, name) ==
    LET plugin == get_local_plugin(pl, name)
    IN  IF plugin # <<>> THEN LocalPlugin_disable(fs, px, plugin[1].name)
        ELSE [ret |-> FALSE, files |-> fs]

\* What the download of <name>/main.py can give: status 200, another status,
\* or client.get raising (connection refused, timeout).
DownloadOutcomes == {"status_200", "status_other", "transport_error"}

\* RemotePlugin.install without self.remove(): a disabled copy would survive.
RemotePlugin_install_no_remove(fs, name, outcome) ==
    IF outcome = "transport_error" THEN [raised |-> TRUE, ret |-> FALSE, files |-> fs]
    ELSE IF outcome = "status_200"
    THEN [raised |-> FALSE, ret |-> TRUE, files |-> fs \cup {normal_path(name)}]
    ELSE [raised |-> FALSE, ret |-> FALSE, files |-> fs]

\* RemotePlugin.install after the response arrived: [raised, ret, files].
RemotePlugin_install(fs, name, outcome) ==
    IF outcome = "transport_error" THEN [raised |-> TRUE, ret |-> FALSE, files |-> fs]
    ELSE IF outcome = "status_200"
    THEN [raised |-> FALSE, ret |-> TRUE,
          files |-> LocalPlugin_remove(fs, name) \cup {normal_path(name)}]
    ELSE [raised |-> FALSE, ret |-> FALSE, files |-> fs]

\* install_remote_plugin that returns True without set_local_version.
install_remote_plugin_tail_no_record(plugin, name, outcome, fs, vm, vf) ==
    LET r == RemotePlugin_install(fs, plugin.name, outcome)
    IN  [raised |-> r.raised, ret |-> r.ret, files |-> r.files, version_map |-> vm,
         version_file |-> vf]

\* install_remote_plugin from the return of plugin.install() on:
\* [raised, ret, files, version_map, version_file].
install_remote_plugin_tail(plugin, name, outcome, fs, vm, vf) ==
    LET r == RemotePlugin_install(fs, plugin.name, outcome)
    IN  IF r.raised
        THEN [raised |-> TRUE, ret |-> FALSE, files |-> fs, version_map |-> vm,
              version_file |-> vf]
        ELSE IF r.ret
        THEN LET s == set_local_version(vm, name, plugin.version)
             IN  [raised |-> FALSE, ret |-> TRUE, files |-> r.files,
                  version_map |-> s.version_map, version_file |-> s.version_file]
        ELSE [raised |-> FALSE, ret |-> FALSE, files |-> r.files, version_map |-> vm,
              version_file |-> vf]

\* update_all_remote_plugin's loop from position idx on, up to the first plugin
\* whose update reaches the download: that position, or Len(items) + 1 when the
\* loop runs to its end.  An update that returns False without a download
\* changes nothing.
RECURSIVE NextDownload(_, _, _, _, _)
NextDownload(items, idx, vm, rvm, rp) ==
    IF idx > Len(items) THEN idx
    ELSE IF plugin_need_update(vm, rvm, items[idx].name)
            /\ get_remote_plugin(rp, items[idx].name) # <<>>
    THEN idx
    ELSE NextDownload(items, idx + 1, vm, rvm, rp)

\* ---------------------------------------------------------------- tasks

\* A task slot: the coroutine suspended in it and that coroutine's locals.
\* tried is the history of update_all's inner update calls and their results.
Idle ==
    [pc |-> "idle", op |-> "none", name |-> "", plugin |-> <<>>, items |-> <<>>,
     idx |-> 0, updated |-> <<>>, tried |-> <<>>]

\* A coroutine awaiting plugin.install()'s client.get.
Downloading(op, name, plugin, items, idx, updated, tried) ==
    [pc |-> "download", op |-> op, name |-> name, plugin |-> plugin, items |-> items,
     idx |-> idx, updated |-> updated, tried |-> tried]

\* A coroutine awaiting load_remote_plugins' client.get.
Fetching ==
    [pc |-> "fetch", op |-> "load_remote_plugins", name |-> "", plugin |-> <<>>,
     items |-> <<>>, idx |-> 0, updated |-> <<>>, tried |-> <<>>]

\* The step taken last: the call, its argument and how it ended: "True", "False",
\* "list" (load_local_plugins returns self.plugins, load_remote_plugins the new
\* remote_plugins, update_all its updated list), "cached" (the wrapper returns
\* cache.value), "raised", or "suspended" at an await.
\*   list:   the list update_all returned, or the list the cache wrapper returned;
\*   plugin: the catalog record a finished install used;
\*   items:  the catalog list update_all iterated;
\*   tried:  update_all's inner update calls and their results;
\*   before: the plugin files before the step;
\*   prev:   the step before this one, when that was a call on the same name.
Event(op, name, ret, list, plugin, items, tried, before, prev) ==
    [op |-> op, name |-> name, ret |-> ret, list |-> list, plugin |-> plugin,
     items |-> items, tried |-> tried, before |-> before, prev |-> prev]

\* A step that returns nothing but ret.
Plain(op, name, ret) == Event(op, name, ret, <<>>, <<>>, <<>>, <<>>, {}, <<>>)

\* What a call on name remembers of the step before it.
Prev(name) ==
    IF last.name = name /\ name # ""
    THEN <<[op |-> last.op, ret |-> last.ret, before |-> last.before]>>
    ELSE <<>>

BoolRet(b) == IF b THEN "True" ELSE "False"

\* The lowest free task slot.
FreeTask == CHOOSE t \in Tasks : calls[t].pc = "idle" /\ \A u \in Tasks : calls[u].pc = "idle" => t <= u

HasFreeTask == \E t \in Tasks : calls[t].pc = "idle"

\* The update_all attempts that returned False without a download: items[from..to-1].
Skipped(items, from, to) ==
    [i \in 1..(to - from) |-> [name |-> items[from + i - 1].name, ret |-> FALSE]]

\* ----------------------------------------------------------------- Init

\* Ledger files left by earlier runs: one plugin recorded, both recorded, and
\* one recorded at version zero.
InitLedgers ==
    {[n \in {"a"} |-> Some(1)], [n \in Names |-> Some(1)],
     [n \in Names |-> IF n = "a" THEN Some(0) ELSE Some(1)]}

NoLedgerFile == [exists |-> FALSE, data |-> EmptyDict]

\* PluginManager.__init__ (lines 70-74) over the directory dir_files with the
\* ledger file ledger, for a run of n calls.
Constructed(dir_files, ledger, n) ==
    /\ files = dir_files
    /\ version_file = ledger
    /\ version_map = EmptyDict
    /\ remote_version_map = EmptyDict
    /\ plugins = <<>>
    /\ remote_plugins = <<>>
    /\ cache = [time |-> "none", value |-> <<>>]
    /\ calls = [t \in Tasks |-> Idle]
    /\ last = Plain("init", "", "none")
    /\ ops = 0
    /\ budget = n

\* A new manager over any plugin directory.
Init ==
    \E dir_files \in SUBSET PluginFiles,
       ledger \in {NoLedgerFile} \cup {[exists |-> TRUE, data |-> d] : d \in InitLedgers} :
        Constructed(dir_files, ledger, MaxOps)

\* A new manager over a directory with both plugins installed at version 1,
\* for runs one call longer.
InitDeep ==
    Constructed({normal_path(n) : n \in Names},
                [exists |-> TRUE, data |-> [n \in Names |-> Some(1)]], MaxOps + 1)

\* -------------------------------------------------- synchronous methods

load_local_plugins ==
    /\ ops < budget
    /\ version_map' = load_local_version_map(version_map, version_file)
    /\ plugins' = ScanEntries(<<>>, Listing(ListDir(files, version_file)), files, version_map')
    /\ last' = Plain("load_local_plugins", "", "list")
    /\ ops' = ops + 1
    /\ UNCHANGED <<files, version_file, remote_version_map, remote_plugins,
                   cache, calls, budget>>

remove_plugin(name) ==
    LET r == remove_plugin_result(plugins, files, version_map, version_file, name)
    IN  /\ ops < budget
        /\ files' = r.files
        /\ version_map' = r.version_map
        /\ version_file' = r.version_file
        /\ last' = Event("remove_plugin", name, BoolRet(r.ret), <<>>, <<>>, <<>>, <<>>,
                         {}, Prev(name))
        /\ ops' = ops + 1
        /\ UNCHANGED <<remote_version_map, plugins, remote_plugins, cache, calls, budget>>

enable_plugin(name, px) ==
    LET r == enable_plugin_result(plugins, files, px, name)
    IN  /\ ops < budget
        /\ files' = r.files
        /\ last' = Event("enable_plugin", name, BoolRet(r.ret), <<>>, <<>>, <<>>, <<>>,
                         files, <<>>)
        /\ ops' = ops + 1
        /\ UNCHANGED <<version_file, version_map, remote_version_map, plugins,
                       remote_plugins, cache, calls, budget>>

disable_plugin(name, px) ==
    LET r == disable_plugin_result(plugins, files, px, name)
    IN  /\ ops < budget
        /\ files' = r.files
        /\ last' = Event("disable_plugin", name, BoolRet(r.ret), <<>>, <<>>, <<>>, <<>>,
                         {}, Prev(name))
        /\ ops' = ops + 1
        /\ UNCHANGED <<version_file, version_map, remote_version_map, plugins,
                       remote_plugins, cache, calls, budget>>

\* ------------------------------------------------------------ coroutines

\* A call that returns before its first await: nothing but the history changes.
ReturnsAtOnce(op, name, ret) ==
    /\ last' = Plain(op, name, ret)
    /\ UNCHANGED calls

\* A call that reaches plugin.install()'s await.
SuspendsOnDownload(op, name, plugin, items, idx, updated, tried) ==
    /\ HasFreeTask
    /\ calls' = [calls EXCEPT ![FreeTask] =
                    Downloading(op, name, plugin, items, idx, updated, tried)]
    /\ last' = Plain(op, name, "suspended")

\* install_remote_plugin(name), up to the await in plugin.install().
install_remote_plugin(name) ==
    LET plugin == get_remote_plugin(remote_plugins, name)
    IN  /\ ops < budget
        /\ IF plugin # <<>>
           THEN SuspendsOnDownload("install_remote_plugin", name, plugin, <<>>, 0, <<>>, <<>>)
           ELSE ReturnsAtOnce("install_remote_plugin", name, "False")
        /\ ops' = ops + 1
        /\ UNCHANGED <<files, version_file, version_map, remote_version_map,
                       plugins, remote_plugins, cache, budget>>

\* update_remote_plugin(name), up to the await in plugin.install().
update_remote_plugin(name) ==
    LET plugin == get_remote_plugin(remote_plugins, name)
    IN  /\ ops < budget
        /\ IF plugin_need_update(version_map, remote_version_map, name) /\ plugin # <<>>
           THEN SuspendsOnDownload("update_remote_plugin", name, plugin, <<>>, 0, <<>>, <<>>)
           ELSE ReturnsAtOnce("update_remote_plugin", name, "False")
        /\ ops' = ops + 1
        /\ UNCHANGED <<files, version_file, version_map, remote_version_map,
                       plugins, remote_plugins, cache, budget>>

\* update_all_remote_plugin(), up to the first await of its loop or, when no
\* plugin reaches a download, to its return.
update_all_remote_plugin ==
    LET items == remote_plugins
        j == NextDownload(items, 1, version_map, remote_version_map, remote_plugins)
        tried == Skipped(items, 1, j)
    IN  /\ ops < budget
        /\ IF j > Len(items)
           THEN /\ last' = Event("update_all_remote_plugin", "", "list", <<>>, <<>>,
                                 items, tried, {}, <<>>)
                /\ UNCHANGED calls
           ELSE SuspendsOnDownload("update_all_remote_plugin", items[j].name,
                                   get_remote_plugin(remote_plugins, items[j].name),
                                   items, j, <<>>, tried)
        /\ ops' = ops + 1
        /\ UNCHANGED <<files, version_file, version_map, remote_version_map,
                       plugins, remote_plugins, cache, budget>>

\* The download awaited in task t ends with outcome: install_remote_plugin runs
\* to its return; under update_all the loop then runs on to its next await or
\* to its return.  An exception of client.get passes through every caller.
download_return(t, outcome) ==
    LET c == calls[t]
        r == install_remote_plugin_tail(c.plugin[1], c.name, outcome, files,
                                        version_map, version_file)
    IN  /\ c.pc = "download"
        /\ files' = r.files
        /\ version_map' = r.version_map
        /\ version_file' = r.version_file
        /\ IF r.raised
           THEN /\ calls' = [calls EXCEPT ![t] = Idle]
                /\ last' = Event(c.op, IF c.op = "update_all_remote_plugin" THEN "" ELSE c.name,
                                 "raised", <<>>, c.plugin, c.items, c.tried, {}, <<>>)
           ELSE IF c.op # "update_all_remote_plugin"
           THEN /\ calls' = [calls EXCEPT ![t] = Idle]
                /\ last' = Event(c.op, c.name, BoolRet(r.ret), <<>>, c.plugin, <<>>, <<>>,
                                 {}, <<>>)
           ELSE LET updated == IF r.ret THEN Append(c.updated, c.items[c.idx])
                                        ELSE c.updated
                    j == NextDownload(c.items, c.idx + 1, r.version_map,
                                      remote_version_map, remote_plugins)
                    tried == Append(c.tried, [name |-> c.name, ret |-> r.ret])
                                \o Skipped(c.items, c.idx + 1, j)
                IN  IF j > Len(c.items)
                    THEN /\ calls' = [calls EXCEPT ![t] = Idle]
                         /\ last' = Event(c.op, "", "list", updated, <<>>, c.items, tried,
                                          {}, <<>>)
                    ELSE /\ calls' = [calls EXCEPT ![t] =
                                        Downloading(c.op, c.items[j].name,
                                            get_remote_plugin(remote_plugins, c.items[j].name),
                                            c.items, j, updated, tried)]
                         /\ last' = Plain(c.op, "", "suspended")
        /\ UNCHANGED <<remote_version_map, plugins, remote_plugins, cache, ops, budget>>

\* The @cache() wrapper of load_remote_plugins: within the freshness window the
\* cached list is returned; otherwise the wrapped coroutine runs to its await.
load_remote_plugins ==
    /\ ops < budget
    /\ IF cache.time = "fresh"
       THEN /\ last' = Event("load_remote_plugins", "", "cached", cache.value, <<>>,
                             <<>>, <<>>, {}, <<>>)
            /\ UNCHANGED calls
       ELSE /\ HasFreeTask
            /\ calls' = [calls EXCEPT ![FreeTask] = Fetching]
            /\ last' = Plain("load_remote_plugins", "", "suspended")
    /\ ops' = ops + 1
    /\ UNCHANGED <<files, version_file, version_map, remote_version_map,
                   plugins, remote_plugins, cache, budget>>

\* The @cache() wrapper after the wrapped coroutine ended: a returned list is
\* stored and the window starts; an exception passes through and stores nothing.
cache_store(c, raised, value) ==
    IF raised THEN c ELSE [time |-> "fresh", value |-> value]

\* The catalog request awaited in task t ends with resp.
fetch_return(t, resp) ==
    LET r == load_remote_plugins_body(resp, files, remote_plugins, remote_version_map)
    IN  /\ calls[t].pc = "fetch"
        /\ remote_plugins' = r.remote_plugins
        /\ remote_version_map' = r.remote_version_map
        /\ cache' = cache_store(cache, r.raised, r.ret)
        /\ calls' = [calls EXCEPT ![t] = Idle]
        /\ last' = Plain("load_remote_plugins", "", IF r.raised THEN "raised" ELSE "list")
        /\ UNCHANGED <<files, version_file, version_map, plugins, ops, budget>>

\* The freshness window of the cached catalog elapses.
cache_expire ==
    /\ cache.time = "fresh"
    /\ cache' = [cache EXCEPT !.time = "expired"]
    /\ last' = Plain("cache_expire", "", "none")
    /\ UNCHANGED <<files, version_file, version_map, remote_version_map,
                   plugins, remote_plugins, calls, ops, budget>>

Next ==
    \/ load_local_plugins
    \/ \E name \in Names : remove_plugin(name)
    \/ \E name \in Names, px \in BOOLEAN : enable_plugin(name, px)
    \/ \E name \in Names, px \in BOOLEAN : disable_plugin(name, px)
    \/ \E name \in Names : install_remote_plugin(name)
    \/ \E name \in Names : update_remote_plugin(name)
    \/ update_all_remote_plugin
    \/ \E t \in Tasks, outcome \in DownloadOutcomes : download_return(t, outcome)
    \/ load_remote_plugins
    \/ \E t \in Tasks, resp \in Responses : fetch_return(t, resp)
    \/ cache_expire

Spec == Init /\ [][Next]_vars

SpecDeep == InitDeep /\ [][Next]_vars

\* A new manager over a directory in which no plugin has both its files.
InitOneFile ==
    \E dir_files \in {S \in SUBSET PluginFiles :
                         \A n \in Names : ~({normal_path(n), disabled_path(n)} \subseteq S)},
       ledger \in {NoLedgerFile} \cup {[exists |-> TRUE, data |-> d] : d \in InitLedgers} :
        Constructed(dir_files, ledger, MaxOps)

SpecOneFile == InitOneFile /\ [][Next]_vars

\* -------------------------------------------------- plugin_need_update
\* The query alone, over every ledger and catalog content: versions below
\* zero, zero and null included.

WideVersions == {None} \cup {Some(v) : v \in -1..MaxVersion}

WideMaps == UNION {[S -> WideVersions] : S \in SUBSET Names}

\* A manager that has listed an empty directory holding the ledger vm and
\* fetched the catalog rvm.
InitNeedUpdate ==
    \E vm \in WideMaps, rvm \in WideMaps :
        /\ files = {}
        /\ version_file = [exists |-> TRUE, data |-> vm]
        /\ version_map = vm
        /\ remote_plugins =
               [i \in 1..Len(NameList(DOMAIN rvm)) |->
                   LocalPlugin(NameList(DOMAIN rvm)[i], FALSE, FALSE,
                               rvm[NameList(DOMAIN rvm)[i]])]
        /\ remote_version_map = rvm
        /\ plugins = <<>>
        /\ cache = [time |-> "fresh", value |-> remote_plugins]
        /\ calls = [t \in Tasks |-> Idle]
        /\ last = Plain("init", "", "none")
        /\ ops = 0
        /\ budget = 1

\* plugin_need_update(name) called by the manager's user.
plugin_need_update_call(name) ==
    /\ ops < budget
    /\ last' = Plain("plugin_need_update", name,
                     BoolRet(plugin_need_update(version_map, remote_version_map, name)))
    /\ ops' = ops + 1
    /\ UNCHANGED <<files, version_file, version_map, remote_version_map, plugins,
                   remote_plugins, cache, calls, budget>>

NextNeedUpdate == \E name \in Names : plugin_need_update_call(name)

SpecNeedUpdate == InitNeedUpdate /\ [][NextNeedUpdate]_vars

\* ================================================================ claims

\* The ledger's version for name: None when there is no entry or the entry is null.
LedgerVersion(name) == DictGet(version_map, name)

\* The cached remote version of name: None when unknown.
RemoteVersion(name) == DictGet(remote_version_map, name)

\* C3 as stated: needsUpdate(name) is true exactly when both versions are
\* known, the local one is not zero and local < remote; false otherwise (no
\* local version, local zero, remote unknown, equal versions).
C3_NeedsUpdateAsStated ==
    last.op = "plugin_need_update" =>
        (last.ret = "True") <=>
            /\ LedgerVersion(last.name) # None
            /\ RemoteVersion(last.name) # None
            /\ LedgerVersion(last.name)[1] # 0
            /\ LedgerVersion(last.name)[1] < RemoteVersion(last.name)[1]

\* C3 amended: needsUpdate(name) is true exactly when both versions are known,
\* both are non-zero and local < remote; false in every other case.
C3_NeedsUpdate ==
    last.op = "plugin_need_update" =>
        (last.ret = "True") <=>
            /\ LedgerVersion(last.name) # None
            /\ RemoteVersion(last.name) # None
            /\ LedgerVersion(last.name)[1] # 0
            /\ RemoteVersion(last.name)[1] # 0
            /\ LedgerVersion(last.name)[1] < RemoteVersion(last.name)[1]

\* C3 witness: the query answered true for a plugin whose remote version is newer.
C3_Witness ==
    /\ last.op = "plugin_need_update"
    /\ last.ret = "True"
    /\ LedgerVersion(last.name) = Some(1)
    /\ RemoteVersion(last.name) = Some(2)

\* C1: when install_remote_plugin(name) returns True, name is in the ledger,
\* its active file exists, its disabled file does not, and the ledger's version
\* of name is the version of the catalog record the install looked up.
C1_InstallSuccess ==
    (last.op = "install_remote_plugin" /\ last.ret = "True") =>
        /\ get_plugin_install_status(version_map, last.name)
        /\ get_plugin_load_status(files, last.name)
        /\ disabled_path(last.name) \notin files
        /\ version_map[last.name] = last.plugin[1].version

\* C1 witness: an install has returned True.
C1_Witness == last.op = "install_remote_plugin" /\ last.ret = "True"

\* C2 as stated: after remove_plugin(name) returns True no file of name is left
\* and the ledger has no entry for it, and a remove_plugin(name) made right
\* after one that returned True returns False.
C2_RemoveAsStated ==
    /\ (last.op = "remove_plugin" /\ last.ret = "True") =>
           /\ normal_path(last.name) \notin files
           /\ disabled_path(last.name) \notin files
           /\ last.name \notin DOMAIN version_map
    /\ (/\ last.op = "remove_plugin"
        /\ last.prev # <<>>
        /\ last.prev[1].op = "remove_plugin"
        /\ last.prev[1].ret = "True") => last.ret = "False"

\* The files, the in-memory ledger and the ledger file are left as they were.
DiskAndLedgerUnchanged ==
    /\ files' = files
    /\ version_map' = version_map
    /\ version_file' = version_file

\* C5 as stated: when the download of an install does not succeed (a status
\* other than 200, or a transport failure), install returns False and leaves
\* the files, the ledger and the ledger file as they were.
C5_DownloadFailureAsStated ==
    [][\A t \in Tasks, outcome \in {"status_other", "transport_error"} :
          (/\ calls[t].pc = "download"
           /\ calls[t].op = "install_remote_plugin"
           /\ calls'[t].pc = "idle"
           /\ download_return(t, outcome))
          => (last'.ret = "False" /\ DiskAndLedgerUnchanged)]_vars

\* needsUpdate(name) in the current state.
NeedsUpdate(name) == plugin_need_update(version_map, remote_version_map, name)

\* C4, the part that stands: update_remote_plugin(name) reaches the install
\* only when needsUpdate(name) is true; when it is false the call returns False
\* and changes neither files nor ledger.
UpdateOnlyWhenNeeded ==
    \A name \in Names :
        (ops' = ops + 1 /\ update_remote_plugin(name)) =>
            /\ last'.ret = "suspended" => NeedsUpdate(name)
            /\ ~NeedsUpdate(name) =>
                  (last'.ret = "False" /\ DiskAndLedgerUnchanged /\ calls' = calls)

\* C4 as stated: the part above, and when update_remote_plugin(name) returns
\* True the ledger's version of name equals the remote catalog version of name
\* and needsUpdate(name) is false.
C4_UpdateAsStated ==
    [][/\ UpdateOnlyWhenNeeded
       /\ (last'.op = "update_remote_plugin" /\ last'.ret = "True") =>
             /\ version_map'[last'.name] = DictGet(remote_version_map', last'.name)
             /\ ~plugin_need_update(version_map', remote_version_map', last'.name)]_vars

\* C4 amended: the part above, and when update_remote_plugin(name) returns True
\* the ledger's version of name equals the version of the catalog record the
\* update looked up before its download; needsUpdate(name) is then false
\* whenever the cached remote version of name is still that version.
C4_Update ==
    [][/\ UpdateOnlyWhenNeeded
       /\ (last'.op = "update_remote_plugin" /\ last'.ret = "True") =>
             /\ version_map'[last'.name] = last'.plugin[1].version
             /\ DictGet(remote_version_map', last'.name) = last'.plugin[1].version
                   => ~plugin_need_update(version_map', remote_version_map', last'.name)]_vars

\* C4 witness: an update has returned True and the ledger holds the newer version.
C4_Witness ==
    /\ last.op = "update_remote_plugin"
    /\ last.ret = "True"
    /\ version_map[last.name] = Some(2)
    /\ ~NeedsUpdate(last.name)

\* The active and the disabled file of name, as far as they exist.
FilePair(fs, name) == fs \cap {normal_path(name), disabled_path(name)}

\* The last two steps were enable_plugin(name) and then disable_plugin(name),
\* for a name that has a local record.
EnableThenDisable ==
    /\ last.op = "disable_plugin"
    /\ last.prev # <<>>
    /\ last.prev[1].op = "enable_plugin"
    /\ get_local_plugin(plugins, last.name) # <<>>

\* C6 as stated: enable then disable leaves the file pair of name as it was,
\* whatever the pair was.
C6_RoundTripAsStated ==
    EnableThenDisable => FilePair(files, last.name) = FilePair(last.prev[1].before, last.name)

\* C6 amended: enable then disable leaves the file pair of name as it was when
\* the active file of name did not exist before the two calls (disabled only,
\* or neither file).
C6_RoundTrip ==
    (EnableThenDisable /\ normal_path(last.name) \notin last.prev[1].before)
        => FilePair(files, last.name) = FilePair(last.prev[1].before, last.name)

\* C6 witness: both calls succeeded on a plugin that was disabled.
C6_Witness ==
    /\ EnableThenDisable
    /\ FilePair(last.prev[1].before, last.name) = {disabled_path(last.name)}
    /\ last.prev[1].ret = "True"
    /\ last.ret = "True"

\* File names that load_local_plugins turns into a record.
IsPluginFile(f) == EndsWith(f, <<".py">>) \/ EndsWith(f, <<".py", ".disabled">>)

\* C7 as stated: every record load_local_plugins returns has status = the
\* active file exists, installed = the name has a ledger entry, version = the
\* ledger's value (None only without an entry); only .py and .py.disabled
\* files give a record.
C7_ListLocalAsStated ==
    last.op = "load_local_plugins" =>
        /\ \A i \in 1..Len(plugins) :
              /\ plugins[i].status = (normal_path(plugins[i].name) \in files)
              /\ plugins[i].installed = (plugins[i].name \in DOMAIN version_map)
              /\ plugins[i].version = LedgerVersion(plugins[i].name)
              /\ plugins[i].version = None => plugins[i].name \notin DOMAIN version_map
        /\ {plugins[i].name : i \in 1..Len(plugins)}
               = {Join(StripSuffix(f)) : f \in {g \in ListDir(files, version_file) : IsPluginFile(g)}}
        /\ Len(plugins) = Cardinality({g \in ListDir(files, version_file) : IsPluginFile(g)})

\* C8: enable, disable and remove of a name without a local record, and
\* install and update of a name the catalog snapshot does not hold, return
\* False, raise nothing and leave files, ledger and ledger file as they were.
C8_UnknownName ==
    [][\A name \in Names :
          /\ (/\ ops' = ops + 1
              /\ get_local_plugin(plugins, name) = <<>>
              /\ \/ \E px \in BOOLEAN : enable_plugin(name, px)
                 \/ \E px \in BOOLEAN : disable_plugin(name, px)
                 \/ remove_plugin(name))
             => (last'.ret = "False" /\ DiskAndLedgerUnchanged)
          /\ (/\ ops' = ops + 1
              /\ get_remote_plugin(remote_plugins, name) = <<>>
              /\ \/ install_remote_plugin(name)
                 \/ update_remote_plugin(name))
             => (last'.ret = "False" /\ DiskAndLedgerUnchanged /\ calls' = calls)]_vars

\* C8 witness: a call on an unknown name has returned False while a file of
\* that name is in the directory.
C8_Witness ==
    /\ last.op \in {"enable_plugin", "disable_plugin", "remove_plugin"}
    /\ last.ret = "False"
    /\ get_local_plugin(plugins, last.name) = <<>>
    /\ FilePair(files, last.name) # {}

\* The items of update_all's list whose inner update returned True.
RECURSIVE UpdatedOf(_, _)
UpdatedOf(items, tried) ==
    IF items = <<>> \/ tried = <<>> THEN <<>>
    ELSE IF Head(tried).ret THEN <<Head(items)>> \o UpdatedOf(Tail(items), Tail(tried))
    ELSE UpdatedOf(Tail(items), Tail(tried))

\* C9 as stated: update_all never raises; it attempts update(name) for every
\* plugin of the snapshot, in order, and returns exactly the plugins whose
\* update returned True.
C9_UpdateAllAsStated ==
    (last.op = "update_all_remote_plugin" /\ last.ret # "suspended") =>
        /\ last.ret = "list"
        /\ Len(last.tried) = Len(last.items)
        /\ \A i \in 1..Len(last.items) : last.tried[i].name = last.items[i].name
        /\ last.list = UpdatedOf(last.items, last.tried)

\* The catalog response fails to give a list of well-formed descriptors.
FetchFails(resp) ==
    resp.kind # "list" \/ \E i \in 1..Len(resp.list) : ~resp.list[i].valid

\* C10: a failed catalog fetch is raised to the caller and leaves
\* remote_plugins and remote_version_map as they were.
C10_FailedFetch ==
    [][\A t \in Tasks, resp \in Responses :
          (/\ calls[t].pc = "fetch"
           /\ calls'[t].pc = "idle"
           /\ FetchFails(resp)
           /\ fetch_return(t, resp))
          => /\ last'.ret = "raised"
             /\ remote_plugins' = remote_plugins
             /\ remote_version_map' = remote_version_map]_vars

\* C10 witness: a fetch has failed while an earlier snapshot was held.
C10_Witness ==
    /\ last.op = "load_remote_plugins"
    /\ last.ret = "raised"
    /\ remote_plugins # <<>>

\* The catalog requests in flight.
Requests(cs) == {t \in Tasks : cs[t].pc = "fetch"}

\* C11: once a catalog fetch has succeeded, a load_remote_plugins call made
\* within the freshness window returns the cached snapshot (the manager's
\* remote_plugins) and issues no request; a call made after the window has
\* elapsed issues exactly one new request.
C11_CacheWindow ==
    [][(ops' = ops + 1 /\ load_remote_plugins) =>
          /\ cache.time = "fresh" =>
                /\ last'.ret = "cached"
                /\ last'.list = remote_plugins
                /\ Requests(calls') = Requests(calls)
          /\ cache.time = "expired" =>
                /\ last'.ret = "suspended"
                /\ Requests(calls) \subseteq Requests(calls')
                /\ Cardinality(Requests(calls') \ Requests(calls)) = 1]_vars

\* C11 witness: a call within the window has returned a cached catalog that
\* lists a plugin.
C11_Witness ==
    /\ last.op = "load_remote_plugins"
    /\ last.ret = "cached"
    /\ last.list # <<>>
    /\ cache.time = "fresh"

\* Task t holds an install_remote_plugin(name) or update_remote_plugin(name)
\* that has started and is suspended on its download.
InProgress(t, name) ==
    /\ calls[t].pc = "download"
    /\ calls[t].op \in {"install_remote_plugin", "update_remote_plugin"}
    /\ calls[t].name = name

\* C12 as stated: while an install or update of name is in progress and stays
\* suspended, no remove_plugin(name) and no other install or update of name
\* changes the files, the ledger or the ledger file.
C12_SerializedAsStated ==
    [][\A name \in Names, t \in Tasks :
          (/\ InProgress(t, name)
           /\ calls'[t] = calls[t]
           /\ \/ ops' = ops + 1 /\ remove_plugin(name)
              \/ \E u \in Tasks \ {t}, outcome \in DownloadOutcomes :
                    InProgress(u, name) /\ download_return(u, outcome))
          => DiskAndLedgerUnchanged]_vars

\* name has no file in the directory and no entry in the ledger, in memory or
\* in the ledger file.
Absent(name) ==
    /\ FilePair(files, name) = {}
    /\ name \notin DOMAIN version_map
    /\ name \notin DOMAIN version_file.data

\* C13 as stated: for every name with no file and no ledger entry the queries
\* give installed = False, status = False and no version, and so does the
\* local record get_local_plugin returns for the name, if it returns one.
C13_AbsentNameAsStated ==
    \A name \in Names :
        Absent(name) =>
            /\ ~get_plugin_install_status(version_map, name)
            /\ ~get_plugin_load_status(files, name)
            /\ get_local_version(version_map, name) = None
            /\ \A i \in 1..Len(get_local_plugin(plugins, name)) :
                  /\ ~get_local_plugin(plugins, name)[i].installed
                  /\ ~get_local_plugin(plugins, name)[i].status
                  /\ get_local_plugin(plugins, name)[i].version = None

\* C14: in a run that starts from a directory where no name has both its
\* files, no name ever has both its active and its disabled file.
C14_AtMostOneFile ==
    \A name \in Names : Cardinality(FilePair(files, name)) <= 1

\* C14 witness: an install has succeeded for a plugin that was listed while
\* only its disabled file existed.
C14_Witness ==
    /\ last.op = "install_remote_plugin"
    /\ last.ret = "True"
    /\ get_local_plugin(plugins, last.name) # <<>>
    /\ ~get_local_plugin(plugins, last.name)[1].status
    /\ FilePair(files, last.name) = {normal_path(last.name)}

\* C15: enable_plugin on a name with a local record returns True or False and
\* never raises; it returns False and leaves the files as they were when the
\* disabled file does not exist; when it returns True the active file exists
\* and the disabled file does not.  disable_plugin likewise, with the two
\* files swapped.
C15_EnableDisableContract ==
    [][\A name \in Names, px \in BOOLEAN :
          /\ (/\ ops' = ops + 1
              /\ get_local_plugin(plugins, name) # <<>>
              /\ enable_plugin(name, px))
             => /\ last'.ret \in {"True", "False"}
                /\ disabled_path(name) \notin files =>
                      (last'.ret = "False" /\ files' = files)
                /\ last'.ret = "True" =>
                      (normal_path(name) \in files' /\ disabled_path(name) \notin files')
          /\ (/\ ops' = ops + 1
              /\ get_local_plugin(plugins, name) # <<>>
              /\ disable_plugin(name, px))
             => /\ last'.ret \in {"True", "False"}
                /\ normal_path(name) \notin files =>
                      (last'.ret = "False" /\ files' = files)
                /\ last'.ret = "True" =>
                      (disabled_path(name) \in files' /\ normal_path(name) \notin files')]_vars

\* C15 witness: enable_plugin has returned True for a listed plugin whose
\* active file already existed next to the disabled one.
C15_Witness ==
    /\ last.op = "enable_plugin"
    /\ last.ret = "True"
    /\ get_local_plugin(plugins, last.name) # <<>>
    /\ FilePair(last.before, last.name) = {normal_path(last.name), disabled_path(last.name)}
    /\ FilePair(files, last.name) = {normal_path(last.name)}

\* C16: in every state a task can observe, remote_version_map has exactly the
\* names of the records in remote_plugins and maps each name to the version of
\* that name's record, so both come from one fetch response.
C16_SnapshotAndMapTogether ==
    /\ DOMAIN remote_version_map = {remote_plugins[i].name : i \in 1..Len(remote_plugins)}
    /\ \A i \in 1..Len(remote_plugins) :
          remote_version_map[remote_plugins[i].name] = remote_plugins[i].version

\* C16 witness: the catalog was replaced while an install was suspended on its
\* download: the record the install holds is no longer the snapshot's.
C16_Witness ==
    \E t \in Tasks :
        /\ calls[t].pc = "download"
        /\ remote_plugins # <<>>
        /\ DictGet(remote_version_map, calls[t].name) # calls[t].plugin[1].version

\* C17 as stated: in every state, the local record get_local_plugin returns
\* for a name has status True exactly when the active file of that name exists.
C17_RecordStatusAsStated ==
    \A name \in Names :
        get_local_plugin(plugins, name) # <<>> =>
            (get_local_plugin(plugins, name)[1].status
                <=> get_plugin_load_status(files, name))

\* C18: when an install or update returns True, and when any call other than
\* the directory scan changes the in-memory ledger (a remove_plugin that drops
\* an entry, an update inside update_all), the ledger file exists afterwards
\* and holds the whole in-memory ledger.
C18_LedgerPersisted ==
    [][(/\ last'.op # "load_local_plugins"
        /\ \/ version_map' # version_map
           \/ /\ last'.op \in {"install_remote_plugin", "update_remote_plugin"}
              /\ last'.ret = "True"
              /\ calls' # calls)
       => (version_file'.exists /\ version_file'.data = version_map')]_vars

\* C18 witness: an install has returned True while the ledger also holds the
\* other plugin's entry.
C18_Witness ==
    /\ last.op = "install_remote_plugin"
    /\ last.ret = "True"
    /\ DOMAIN version_map = Names
    /\ version_file.data = version_map

\* The positions of the records named name in the list pl.
RecordsOf(pl, name) == {i \in 1..Len(pl) : pl[i].name = name}

\* The plugin names found in the directory.
NamesFound == {name \in Names : FilePair(files, name) # {}}

\* C19 as stated: for every directory content, a name with both files
\* included, load_local_plugins returns exactly one record for each plugin
\* name found in the directory.
C19_OneRecordPerNameAsStated ==
    last.op = "load_local_plugins" =>
        \A name \in Names :
            Cardinality(RecordsOf(plugins, name)) = IF name \in NamesFound THEN 1 ELSE 0

\* The entry of m as the ledger file holds it: None when the file has none.
PersistedEntry(vf, m) == DictGet(vf.data, m)

\* C20 as stated: a successful install_remote_plugin(name) and a
\* remove_plugin(name) that returns True leave, for every other plugin m, the
\* entry of m in the ledger file and the files of m as they were, in every
\* reachable state of the manager.
C20_FrameAsStated ==
    [][\A name \in Names :
          (\/ \E t \in Tasks :
                 /\ calls[t].pc = "download"
                 /\ calls[t].op = "install_remote_plugin"
                 /\ calls[t].name = name
                 /\ download_return(t, "status_200")
           \/ /\ ops' = ops + 1
              /\ remove_plugin(name)
              /\ last'.ret = "True")
          => \A m \in Names \ {name} :
                /\ PersistedEntry(version_file', m) = PersistedEntry(version_file, m)
                /\ FilePair(files', m) = FilePair(files, m)]_vars

====
